---------------------------- MODULE Spec2Model ----------------------------
(***************************************************************************)
(* A model of go-pdf-extractor: the extractor (New, Extract,               *)
(* extractFromText, extractFromImages, callOpenAI), the parser             *)
(* (ParsePdfFromPath, ParsePdfFromBuffer, extractTextFromPdf,              *)
(* convertPdfToImages) and the schema validator (ValidateSchema).          *)
(*                                                                         *)
(* One Extract call is a sequence of steps, one per statement group of     *)
(* the Go code; pc is the position of the call.  The PDF libraries, the    *)
(* file system and the completion endpoint are the environment: a PDF is   *)
(* the byte buffer together with what pdfcpu and go-fitz make of it, and   *)
(* the endpoint's answer is chosen when the request is sent.               *)
(***************************************************************************)
EXTENDS Integers, Sequences, FiniteSets, TLC

(***************************************************************************)
(* Bounds of the model.                                                    *)
(***************************************************************************)
\* Pages of a PDF document.
MaxPages == 2
\* Runes of a page's text in the documents of SpecSelect.
MaxTextLen == 3
\* Largest configured TextThreshold in SpecSelect.
MaxThreshold == 4
\* Choices of a response body in the answers of SpecClient.
MaxChoices == 2
\* Bytes of a buffer in the requests of SpecSignature.
MaxBytes == 5

(***************************************************************************)
(* Program constants.                                                      *)
(***************************************************************************)
defaultModel == "gpt-4o-mini"
defaultBaseURL == "https://api.openai.com/v1"
defaultSystemPrompt == "You are a helpful assistant that extracts structured data from text. Extract the requested information accurately from the provided text."
\* Declared by the extractor package and used nowhere in it.
defaultVisionEnabled == TRUE
defaultTextThreshold == 100
parserDefaultTextThreshold == 100
StatusOK == 200

(***************************************************************************)
(* Text.  A Go string is a sequence of bytes holding UTF-8; a text is      *)
(* modelled as its sequence of runes, each with the number of bytes of     *)
(* its encoding.  "a" is an ASCII letter, "sp" a space, "nl" a newline,    *)
(* "e2" a two-byte letter (U+00E9).                                        *)
(***************************************************************************)
Letters == {"a", "e2"}
Spaces == {"sp", "nl"}

RuneBytes(r) == IF r = "e2" THEN 2 ELSE 1

\* unicode.IsSpace
IsSpace(r) == r \in Spaces

\* len(s): the number of bytes of s
RECURSIVE GoLen(_)
GoLen(s) == IF s = <<>> THEN 0 ELSE RuneBytes(Head(s)) + GoLen(Tail(s))

RECURSIVE TrimLeft(_)
TrimLeft(s) == IF s # <<>> /\ IsSpace(Head(s)) THEN TrimLeft(Tail(s)) ELSE s

RECURSIVE TrimRight(_)
TrimRight(s) ==
    IF s # <<>> /\ IsSpace(s[Len(s)]) THEN TrimRight(SubSeq(s, 1, Len(s) - 1)) ELSE s

\* strings.TrimSpace
TrimSpace(s) == TrimRight(TrimLeft(s))

Range(s) == {s[i] : i \in DOMAIN s}

\* All sequences over S of length at most n.
RECURSIVE SeqsUpTo(_, _)
SeqsUpTo(S, n) ==
    IF n = 0 THEN {<<>>}
    ELSE LET shorter == SeqsUpTo(S, n - 1)
         IN  shorter \cup {Append(s, x) : s \in {t \in shorter : Len(t) = n - 1}, x \in S}

(***************************************************************************)
(* parser: the pure functions.                                             *)
(***************************************************************************)
hasExtractableText(text, threshold) ==
    IF text = <<>> THEN FALSE ELSE GoLen(TrimSpace(text)) >= threshold

PdfMagic == <<"%", "P", "D", "F">>

\* A mutation of isValidPdfSignature: only the first byte is looked at.
isValidPdfSignatureFirstByte(buffer) ==
    IF Len(buffer.bytes) < 1 THEN FALSE ELSE buffer.bytes[1] = "%"

isValidPdfSignature(buffer) ==
    IF Len(buffer.bytes) < 4 THEN FALSE ELSE SubSeq(buffer.bytes, 1, 4) = PdfMagic

\* *types.ParseOptions: nil, or a pointer to ParseOptions{TextThreshold: n}.
NilParseOptions == [isNil |-> TRUE, TextThreshold |-> 0]
ParseOptions(n) == [isNil |-> FALSE, TextThreshold |-> n]

\* A mutation of EffectiveThreshold: the threshold of the options is taken as given.
EffectiveThresholdAsGiven(parseOptions) == parseOptions.TextThreshold

\* threshold := defaultTextThreshold; if options != nil && options.TextThreshold > 0 {...}
EffectiveThreshold(parseOptions) ==
    IF ~parseOptions.isNil /\ parseOptions.TextThreshold > 0
    THEN parseOptions.TextThreshold
    ELSE parserDefaultTextThreshold

(***************************************************************************)
(* PDF documents.  What the libraries make of a buffer: whether pdfcpu's   *)
(* page-count probe succeeds (it then reports the number of pages),        *)
(* whether go-fitz opens the document, and for each page whether its text  *)
(* can be extracted, the text, and how rendering it to PNG ends.           *)
(***************************************************************************)
NoPdf == [probeOk |-> FALSE, opens |-> FALSE, pages |-> <<>>]

Page(textOk, text, image) == [textOk |-> textOk, text |-> text, image |-> image]

Documents(pageKinds, maxPages) ==
    [probeOk : BOOLEAN, opens : BOOLEAN, pages : SeqsUpTo(pageKinds, maxPages)]

NilBuffer == [isNil |-> TRUE, bytes |-> <<>>, pdf |-> NoPdf]
EmptyBuffer == [isNil |-> FALSE, bytes |-> <<>>, pdf |-> NoPdf]
ShortBuffer == [isNil |-> FALSE, bytes |-> <<"%", "P", "D">>, pdf |-> NoPdf]
NotPdfBuffer == [isNil |-> FALSE, bytes |-> <<"N", "O", "T", "P", "D", "F">>, pdf |-> NoPdf]
\* A buffer that starts with the signature; tag tells a file's bytes from a caller's.
PdfBuffer(tag, doc) == [isNil |-> FALSE, bytes |-> PdfMagic \o <<tag>>, pdf |-> doc]

\* getPageCount: api.PDFInfo fails, or reports PageCount; a count of 0 is reported as 1.
getPageCount(buffer) ==
    IF ~buffer.pdf.probeOk THEN [err |-> TRUE, n |-> 0]
    ELSE IF Len(buffer.pdf.pages) > 0 THEN [err |-> FALSE, n |-> Len(buffer.pdf.pages)]
    ELSE [err |-> FALSE, n |-> 1]

\* doc.Text(pageNum), pageNum 0-indexed: fails for a page the document lacks.
DocText(pdf, pageNum) ==
    IF pageNum < Len(pdf.pages) /\ pdf.pages[pageNum + 1].textOk
    THEN [err |-> FALSE, text |-> pdf.pages[pageNum + 1].text]
    ELSE [err |-> TRUE, text |-> <<>>]

(***************************************************************************)
(* schema.ValidateSchema.  A schema is nil or a mapping; loads says        *)
(* whether gojsonschema.NewSchema accepts it.                              *)
(***************************************************************************)
NilSchema == [isNil |-> TRUE, keys |-> {}, loads |-> FALSE]
EmptySchema == [isNil |-> FALSE, keys |-> {}, loads |-> TRUE]
MalformedSchema == [isNil |-> FALSE, keys |-> {"type"}, loads |-> FALSE]
GoodSchema == [isNil |-> FALSE, keys |-> {"type", "properties"}, loads |-> TRUE]
Schemas == {NilSchema, EmptySchema, MalformedSchema, GoodSchema}

\* A mutation of ValidateSchema: an empty mapping is not looked for.
ValidateSchemaNonNil(schema) ==
    IF schema.isNil THEN "schema must be a non-null object"
    ELSE IF ~schema.loads THEN "schema validation failed"
    ELSE "nil"

ValidateSchema(schema) ==
    IF schema.isNil THEN "schema must be a non-null object"
    ELSE IF Cardinality(schema.keys) = 0 THEN "schema cannot be empty"
    ELSE IF ~schema.loads THEN "schema validation failed"
    ELSE "nil"

(***************************************************************************)
(* extractor: configuration and New.                                       *)
(***************************************************************************)
\* The ExtractorConfig value of a composite literal: a field the literal
\* does not set has Go's zero value ("" for a string, 0 for an int, false
\* for a bool).  Only for VisionEnabled does the literal record whether the
\* field was written at all ("unset", "true", "false").
ExtractorConfig(literal) ==
    [OpenAIAPIKey  |-> literal.OpenAIAPIKey,
     BaseURL       |-> literal.BaseURL,
     Model         |-> literal.Model,
     TextModel     |-> literal.TextModel,
     VisionModel   |-> literal.VisionModel,
     VisionEnabled |-> (literal.VisionEnabled = "true"),
     TextThreshold |-> literal.TextThreshold,
     SystemPrompt  |-> literal.SystemPrompt]

NoLiteral ==
    [OpenAIAPIKey |-> "", BaseURL |-> "", Model |-> "", TextModel |-> "",
     VisionModel |-> "", VisionEnabled |-> "unset", TextThreshold |-> 0,
     SystemPrompt |-> ""]

NilExtractor ==
    [apiKey |-> "", baseURL |-> "", model |-> "", textModel |-> "",
     visionModel |-> "", config |-> ExtractorConfig(NoLiteral), systemPrompt |-> ""]

\* A mutation of WithDefaults: no default is applied.
WithoutDefaults(config) == config

\* config with the defaults of New applied (config is New's own copy).
WithDefaults(config) ==
    [config EXCEPT
        !.Model = IF config.Model = "" THEN defaultModel ELSE config.Model,
        !.BaseURL = IF config.BaseURL = "" THEN defaultBaseURL ELSE config.BaseURL,
        !.TextThreshold =
            IF config.TextThreshold = 0 THEN defaultTextThreshold ELSE config.TextThreshold]

\* systemPrompt := config.SystemPrompt; if systemPrompt == "" { systemPrompt = defaultSystemPrompt }
ResolveSystemPrompt(config) ==
    IF config.SystemPrompt = "" THEN defaultSystemPrompt ELSE config.SystemPrompt

\* A mutation of ResolveModel: the mode's own model is not looked at.
ResolveModelIgnored(specific, fallback) == fallback

\* textModel := config.TextModel; if textModel == "" { textModel = config.Model }
\* (and the same for the vision model)
ResolveModel(specific, fallback) == IF specific = "" THEN fallback ELSE specific

New(config) ==
    IF config.OpenAIAPIKey = ""
    THEN [err |-> "OpenAI API key is required", e |-> NilExtractor]
    ELSE LET c == WithDefaults(config)
         IN  [err |-> "nil",
              e   |-> [apiKey       |-> c.OpenAIAPIKey,
                       baseURL      |-> c.BaseURL,
                       model        |-> c.Model,
                       textModel    |-> ResolveModel(c.TextModel, c.Model),
                       visionModel  |-> ResolveModel(c.VisionModel, c.Model),
                       config       |-> c,
                       systemPrompt |-> ResolveSystemPrompt(config)]]

GetModel(ex) == ex.model
GetTextModel(ex) == ex.textModel
GetVisionModel(ex) == ex.visionModel

\* url := fmt.Sprintf("%s/chat/completions", e.baseURL)
RequestURL(ex) == <<ex.baseURL, "/chat/completions">>

\* A base URL net/url does not parse (a space in the host name).
MalformedBaseURL == "http://bad host/v1"

\* req, err := http.NewRequest(http.MethodPost, url, ...): fails on a URL that does not parse.
NewRequestFails(url) == url[1] = MalformedBaseURL

(***************************************************************************)
(* extractor: the requests.                                                *)
(***************************************************************************)
Unset == [set |-> FALSE, v |-> 0]
Value(n) == [set |-> TRUE, v |-> n]

NilOptions ==
    [Schema |-> NilSchema, PDFPath |-> "", PDFBuffer |-> NilBuffer,
     Temperature |-> Unset, MaxTokens |-> Unset]

\* The leading system message: "Only include system message if systemPrompt is not empty".
SystemMessages(ex) ==
    IF ex.systemPrompt # ""
    THEN << [role |-> "system", content |-> ex.systemPrompt] >>
    ELSE << >>

ResponseFormat(schemaData) ==
    [type |-> "json_schema",
     json_schema |-> [name |-> "extracted_data", strict |-> TRUE, schema |-> schemaData]]

\* requestBody["temperature"], requestBody["max_tokens"]
Sampling(opts) ==
    [temperature |-> IF opts.Temperature.set THEN opts.Temperature.v ELSE 0,
     max_tokens  |-> opts.MaxTokens]

NilRequest ==
    [model |-> "", messages |-> << >>, response_format |-> ResponseFormat(NilSchema),
     sampling |-> Sampling(NilOptions)]

\* A mutation of TextRequest: the request carries the default model.
TextRequestDefaultModel(ex, txt, schemaData, opts) ==
    [model    |-> ex.model,
     messages |-> SystemMessages(ex) \o
                  << [role |-> "user",
                      content |-> [instruction |-> "Extract the following information from this text:",
                                   text |-> txt]] >>,
     response_format |-> ResponseFormat(schemaData),
     sampling |-> Sampling(opts)]

TextRequest(ex, txt, schemaData, opts) ==
    [model    |-> ex.textModel,
     messages |-> SystemMessages(ex) \o
                  << [role |-> "user",
                      content |-> [instruction |-> "Extract the following information from this text:",
                                   text |-> txt]] >>,
     response_format |-> ResponseFormat(schemaData),
     sampling |-> Sampling(opts)]

\* One image_url block per page image, in order, after the instruction block.
ImageBlocks(imgs) ==
    [i \in 1..Len(imgs) |->
        [type |-> "image_url", url |-> <<"data:image/png;base64,", imgs[i].Base64>>]]

VisionRequest(ex, imgs, schemaData, opts) ==
    [model    |-> ex.visionModel,
     messages |-> SystemMessages(ex) \o
                  << [role |-> "user",
                      content |-> << [type |-> "text",
                                      url |-> <<"Extract the following structured information from these document pages:">>] >>
                                  \o ImageBlocks(imgs)] >>,
     response_format |-> ResponseFormat(schemaData),
     sampling |-> Sampling(opts)]

(***************************************************************************)
(* extractor: callOpenAI on the endpoint's answer.                         *)
(***************************************************************************)
\* The message contents the endpoint may return, and what encoding/json makes
\* of each: whether it is valid JSON, the kind of the value, and the value.
JsonText(c) ==
    CASE c = "{\"a\":1}"        -> [valid |-> TRUE,  kind |-> "object", value |-> "map[a:1]"]
      [] c = " { \"a\" : 1 }\n" -> [valid |-> TRUE,  kind |-> "object", value |-> "map[a:1]"]
      [] c = "{}"               -> [valid |-> TRUE,  kind |-> "object", value |-> "map[]"]
      [] c = "null"             -> [valid |-> TRUE,  kind |-> "null",   value |-> "nil"]
      [] c = "[1]"              -> [valid |-> TRUE,  kind |-> "array",  value |-> "[1]"]
      [] c = "\"s\""            -> [valid |-> TRUE,  kind |-> "string", value |-> "s"]
      [] c = "7"                -> [valid |-> TRUE,  kind |-> "number", value |-> "7"]
      [] c = "true"             -> [valid |-> TRUE,  kind |-> "bool",   value |-> "true"]
      [] OTHER                  -> [valid |-> FALSE, kind |-> "none",   value |-> "nil"]

\* A mutation of UnmarshalMap: the first JSON value of the content is decoded
\* and what follows it is ignored (as json.NewDecoder(...).Decode does).
UnmarshalMapPrefix(c) ==
    IF c = "{\"a\":1} trailing"
    THEN [err |-> FALSE, data |-> "map[a:1]"]
    ELSE LET j == JsonText(c)
         IN  IF j.valid /\ j.kind \in {"object", "null"}
             THEN [err |-> FALSE, data |-> j.value]
             ELSE [err |-> TRUE, data |-> "nil"]

\* A mutation of UnmarshalMap: any JSON value is accepted (as a decode into
\* an interface{} does).
UnmarshalAny(c) ==
    LET j == JsonText(c)
    IN  IF j.valid THEN [err |-> FALSE, data |-> j.value] ELSE [err |-> TRUE, data |-> "nil"]

\* json.Unmarshal([]byte(content), &extractedData), extractedData a map[string]interface{}:
\* an object fills the map, null leaves it nil, anything else is an error.
UnmarshalMap(c) ==
    LET j == JsonText(c)
    IN  IF j.valid /\ j.kind \in {"object", "null"}
        THEN [err |-> FALSE, data |-> j.value]
        ELSE [err |-> TRUE, data |-> "nil"]

NoBody == [json |-> FALSE, choices |-> << >>, usage |-> Unset, model |-> [set |-> FALSE, v |-> ""]]
NoResponse == [transport |-> "none", status |-> 0, body |-> NoBody]

NoErr == [kind |-> "nil", status |-> 0, body |-> NoBody]
Error(kind) == [kind |-> kind, status |-> 0, body |-> NoBody]

NilResult == [isNil |-> TRUE, Data |-> "nil", TokensUsed |-> 0, Model |-> ""]

\* A mutation of IsHTTPError: only a server error is an error.
IsServerError(status) == status >= 500

\* A mutation of IsHTTPError: every 2xx status is a success.
IsNotSuccess(status) == status \notin 200..299

\* if resp.StatusCode != http.StatusOK
IsHTTPError(status) == status # StatusOK

\* A mutation of NoCompletion: an empty content is not looked for.
NoChoices(body) == Len(body.choices) = 0

\* len(response.Choices) == 0 || response.Choices[0].Message.Content == ""
NoCompletion(body) == Len(body.choices) = 0 \/ body.choices[1] = ""

\* A mutation of TotalTokens: the usage of the body is not read.
TotalTokensUnread(body) == 0

\* response.Usage.TotalTokens and response.Model: a field the body omits keeps
\* the zero value of the struct json.Unmarshal fills.
TotalTokens(body) == IF body.usage.set THEN body.usage.v ELSE 0
ReportedModel(body) == IF body.model.set THEN body.model.v ELSE ""

\* What callOpenAI returns once client.Do has answered with resp.
callOpenAIReturn(resp) ==
    IF resp.transport = "doError"
    THEN [result |-> NilResult, err |-> Error("TransportError")]
    ELSE IF resp.transport = "readError"
    THEN [result |-> NilResult, err |-> Error("ReadError")]
    ELSE IF IsHTTPError(resp.status)
    THEN [result |-> NilResult,
          err |-> [kind |-> "RemoteError", status |-> resp.status, body |-> resp.body]]
    ELSE IF ~resp.body.json
    THEN [result |-> NilResult, err |-> Error("ParseResponseError")]
    ELSE IF NoCompletion(resp.body)
    THEN [result |-> NilResult, err |-> Error("EmptyCompletion")]
    ELSE LET u == UnmarshalMap(resp.body.choices[1])
         IN  IF u.err
             THEN [result |-> NilResult, err |-> Error("MalformedCompletion")]
             ELSE [result |-> [isNil      |-> FALSE,
                               Data       |-> u.data,
                               TokensUsed |-> TotalTokens(resp.body),
                               Model      |-> ReportedModel(resp.body)],
                   err |-> NoErr]

(***************************************************************************)
(* The environment.                                                        *)
(***************************************************************************)
\* The file system: os.ReadFile(path).
FileDocument == [probeOk |-> TRUE, opens |-> TRUE,
                 pages |-> << Page(TRUE, <<"a", "a", "sp", "a", "a">>, "ok") >>]

ReadFile(path) ==
    IF path = "a.pdf"
    THEN [err |-> FALSE, data |-> PdfBuffer("file", FileDocument)]
    ELSE [err |-> TRUE, data |-> NilBuffer]

Paths == {"", "missing.pdf", "a.pdf"}

\* parser.ValidatePdf(input interface{}): a path is read and its bytes are
\* checked, a byte slice is checked, anything else is invalid.
BytesInput(b) == [kind |-> "[]byte", path |-> "", buffer |-> b]
PathInput(path) == [kind |-> "string", path |-> path, buffer |-> NilBuffer]
ValidatePdf(input) ==
    CASE input.kind = "string" ->
            LET r == ReadFile(input.path)
            IN  IF r.err THEN FALSE ELSE isValidPdfSignature(r.data)
      [] input.kind = "[]byte" -> isValidPdfSignature(input.buffer)
      [] OTHER -> FALSE

\* The pages of the documents of Spec: a page of text, a scanned page (no
\* text, only an image), a page whose text cannot be extracted and that
\* does not render, a page whose image does not encode.
TextPage == Page(TRUE, <<"a", "a", "a">>, "ok")
ScannedPage == Page(TRUE, <<"sp">>, "ok")
BrokenPage == Page(FALSE, << >>, "renderError")
UnencodablePage == Page(TRUE, << >>, "encodeError")
PageKinds == {TextPage, ScannedPage, BrokenPage, UnencodablePage}

Buffers(docs) ==
    {NilBuffer, EmptyBuffer, NotPdfBuffer} \cup {PdfBuffer("caller", d) : d \in docs}

ExtractionOptions(paths, buffers, schemas, temperatures, maxTokens) ==
    [Schema : schemas, PDFPath : paths, PDFBuffer : buffers,
     Temperature : temperatures, MaxTokens : maxTokens]

Literals(keys, models, textModels, visionModels, flags, thresholds, prompts) ==
    [OpenAIAPIKey : keys, BaseURL : {""}, Model : models, TextModel : textModels,
     VisionModel : visionModels, VisionEnabled : flags, TextThreshold : thresholds,
     SystemPrompt : prompts]

\* The answers of the endpoint.
Body(choices, usage, model) ==
    [json |-> TRUE, choices |-> choices, usage |-> usage, model |-> model]
Garbage == [json |-> FALSE, choices |-> << >>, usage |-> Unset, model |-> [set |-> FALSE, v |-> ""]]
ModelName(m) == [set |-> TRUE, v |-> m]
NoModelName == [set |-> FALSE, v |-> ""]

Answer(status, body) == [transport |-> "ok", status |-> status, body |-> body]
DoError == [transport |-> "doError", status |-> 0, body |-> NoBody]
ReadError(status) == [transport |-> "readError", status |-> status, body |-> NoBody]

(***************************************************************************)
(* The state.                                                              *)
(***************************************************************************)
VARIABLES
    literal,      \* the configuration literal New was called with
    e,            \* the Extractor New returned
    newErr,       \* the error New returned
    pc,           \* the position of the Extract call
    options,      \* Extract's argument
    parseOptions, \* the ParseOptions Extract hands to the parser
    buffer,       \* the bytes ParsePdfFromBuffer works on
    threshold,    \* ParsePdfFromBuffer's threshold
    numPages,     \* the page count of the loop in progress
    pageNum,      \* the page of the loop in progress
    textBuilder,  \* extractTextFromPdf's strings.Builder
    text,         \* the text extractTextFromPdf returned
    images,       \* convertPdfToImages' images
    pendingErr,   \* the error convertPdfToImages is returning with
    handles,      \* the go-fitz documents open
    content,      \* parsedPdf.Content
    mode,         \* what the threshold check decided: "text" or "vision"
    info,         \* the metadata extractTextFromPdf returned
    requestBody,  \* the request body sent
    response,     \* what client.Do and the read of the body gave
    result,       \* Extract's *ExtractionResult
    err,          \* Extract's error
    reused,       \* a call of Extract has returned on this extractor before
    trace         \* the calls made outside the package, in order

vars == <<literal, e, newErr, pc, options, parseOptions, buffer, threshold, numPages,
          pageNum, textBuilder, text, images, pendingErr, handles, content, mode, info,
          requestBody, response, result, err, reused, trace>>

configVars == <<literal, e, newErr>>
parseVars == <<buffer, threshold, numPages, pageNum, textBuilder, text, images,
               pendingErr, handles, content, mode, info>>
callVars == <<requestBody, response>>

NoContent == [Type |-> "", TextContent |-> << >>, ImageContent |-> << >>]

\* info map[string]interface{}: nil, or the empty map make() gives.
NilInfo == "nil"
EmptyInfo == "map[]"

\* A mutation of extractTextOnOpenError: the failure to open is returned as an error.
extractTextOpenErrorReturned(n) ==
    [text |-> << >>, numPages |-> n, info |-> NilInfo, err |-> "failed to open PDF"]

\* extractTextFromPdf when fitz.NewFromMemory fails:
\* return "", numPages, make(map[string]interface{}), nil
extractTextOnOpenError(n) ==
    [text |-> << >>, numPages |-> n, info |-> EmptyInfo, err |-> "nil"]

\* A mutation of Close: the document is left open.
CloseSkipped(h) == h

\* defer doc.Close(): one open document less.
Close(h) == h - 1

\* A mutation of ConversionFailed: the error of the conversion is not looked at.
ConversionFailureIgnored(conversionErr) == FALSE

\* images, err := convertPdfToImages(buffer); if err != nil
ConversionFailed(conversionErr) == conversionErr # "nil"

Init ==
    /\ literal = NoLiteral
    /\ e = NilExtractor
    /\ newErr = "nil"
    /\ pc = "new"
    /\ options = NilOptions
    /\ parseOptions = NilParseOptions
    /\ buffer = NilBuffer
    /\ threshold = 0
    /\ numPages = 0
    /\ pageNum = 0
    /\ textBuilder = << >>
    /\ text = << >>
    /\ images = << >>
    /\ pendingErr = "nil"
    /\ handles = 0
    /\ content = NoContent
    /\ mode = ""
    /\ info = NilInfo
    /\ requestBody = NilRequest
    /\ response = NoResponse
    /\ result = NilResult
    /\ err = NoErr
    /\ reused = FALSE
    /\ trace = << >>

\* return nil, <error of this kind>
Return(r, er) ==
    /\ pc' = "return"
    /\ result' = r
    /\ err' = er

\* A mutation of Fail: what the call has so far is returned with the error.
FailWithResult(kind) ==
    Return([isNil |-> FALSE, Data |-> "nil", TokensUsed |-> 0, Model |-> ""], Error(kind))

Fail(kind) == Return(NilResult, Error(kind))

(***************************************************************************)
(* New.                                                                    *)
(***************************************************************************)
Construct(literals) ==
    /\ pc = "new"
    /\ \E lit \in literals :
          LET r == New(ExtractorConfig(lit))
          IN  /\ literal' = lit
              /\ newErr' = r.err
              /\ e' = r.e
              /\ pc' = IF r.err = "nil" THEN "idle" ELSE "new"
    /\ UNCHANGED <<options, parseOptions, result, err, trace, reused>>
    /\ UNCHANGED parseVars
    /\ UNCHANGED callVars

(***************************************************************************)
(* Extract.                                                                *)
(***************************************************************************)
\* The locals of a call before it starts and after it has returned.
NoCall ==
    /\ options' = NilOptions
    /\ parseOptions' = NilParseOptions
    /\ buffer' = NilBuffer
    /\ threshold' = 0
    /\ numPages' = 0
    /\ pageNum' = 0
    /\ textBuilder' = << >>
    /\ text' = << >>
    /\ images' = << >>
    /\ pendingErr' = "nil"
    /\ content' = NoContent
    /\ mode' = ""
    /\ info' = NilInfo
    /\ requestBody' = NilRequest
    /\ response' = NoResponse
    /\ result' = NilResult
    /\ err' = NoErr
    /\ trace' = << >>

\* The call of Extract with its argument.
Extract(optionSet) ==
    /\ pc = "idle"
    /\ \E o \in optionSet : options' = o
    /\ pc' = "Extract"
    /\ UNCHANGED <<parseOptions, result, err, trace>>
    /\ UNCHANGED configVars
    /\ UNCHANGED reused
    /\ UNCHANGED parseVars
    /\ UNCHANGED callVars

\* The caller has taken the result and the error; the extractor may be called again.
Returned ==
    /\ pc = "return"
    /\ pc' = "idle"
    /\ NoCall
    /\ reused' = TRUE
    /\ UNCHANGED handles
    /\ UNCHANGED configVars

\* A mutation of MissingSource: the check is not made.
MissingSourceUnchecked(o) == FALSE

\* if options.PDFPath == "" && options.PDFBuffer == nil
MissingSource(o) == o.PDFPath = "" /\ o.PDFBuffer.isNil

ValidateInputs ==
    /\ pc = "Extract"
    /\ IF MissingSource(options)
       THEN Fail("MissingSource")
       ELSE pc' = "ValidateSchema" /\ UNCHANGED <<result, err>>
    /\ UNCHANGED <<options, parseOptions, trace>>
    /\ UNCHANGED configVars
    /\ UNCHANGED reused
    /\ UNCHANGED parseVars
    /\ UNCHANGED callVars

ValidateSchemaStep ==
    /\ pc = "ValidateSchema"
    /\ trace' = Append(trace, "schema.ValidateSchema")
    /\ IF ValidateSchema(options.Schema) # "nil"
       THEN Fail("InvalidSchema") /\ UNCHANGED parseOptions
       ELSE /\ parseOptions' = ParseOptions(e.config.TextThreshold)
            /\ pc' = "parse"
            /\ UNCHANGED <<result, err>>
    /\ UNCHANGED <<options>>
    /\ UNCHANGED configVars
    /\ UNCHANGED reused
    /\ UNCHANGED parseVars
    /\ UNCHANGED callVars

\* A mutation of ParsesFromPath: a buffer, when given, is preferred to the path.
ParsesFromPathUnlessBuffer(o) == o.PDFPath # "" /\ o.PDFBuffer.isNil

\* if options.PDFPath != "" { ParsePdfFromPath } else { ParsePdfFromBuffer }
ParsesFromPath(o) == o.PDFPath # ""

ParsePdfFromPath ==
    /\ pc = "parse"
    /\ ParsesFromPath(options)
    /\ trace' = trace \o <<"parser.ParsePdfFromPath", "os.ReadFile">>
    /\ LET r == ReadFile(options.PDFPath)
       IN  IF r.err
           THEN Fail("IOError") /\ UNCHANGED buffer
           ELSE buffer' = r.data /\ pc' = "ParsePdfFromBuffer" /\ UNCHANGED <<result, err>>
    /\ UNCHANGED <<options, parseOptions>>
    /\ UNCHANGED configVars
    /\ UNCHANGED reused
    /\ UNCHANGED <<threshold, numPages, pageNum, textBuilder, text, images, pendingErr,
                   handles, content, mode, info>>
    /\ UNCHANGED callVars

ParsePdfFromCallerBuffer ==
    /\ pc = "parse"
    /\ ~ParsesFromPath(options)
    /\ buffer' = options.PDFBuffer
    /\ pc' = "ParsePdfFromBuffer"
    /\ UNCHANGED <<options, parseOptions, result, err, trace>>
    /\ UNCHANGED configVars
    /\ UNCHANGED reused
    /\ UNCHANGED <<threshold, numPages, pageNum, textBuilder, text, images, pendingErr,
                   handles, content, mode, info>>
    /\ UNCHANGED callVars

\* ParsePdfFromBuffer up to the call of extractTextFromPdf.
ParsePdfFromBuffer ==
    /\ pc = "ParsePdfFromBuffer"
    /\ trace' = Append(trace, "parser.ParsePdfFromBuffer")
    /\ IF ~isValidPdfSignature(buffer)
       THEN Fail("InvalidPdf") /\ UNCHANGED threshold
       ELSE /\ threshold' = EffectiveThreshold(parseOptions)
            /\ pc' = "extractTextFromPdf"
            /\ UNCHANGED <<result, err>>
    /\ UNCHANGED <<options, parseOptions>>
    /\ UNCHANGED configVars
    /\ UNCHANGED reused
    /\ UNCHANGED <<buffer, numPages, pageNum, textBuilder, text, images, pendingErr,
                   handles, content, mode, info>>
    /\ UNCHANGED callVars

\* extractTextFromPdf: the page-count probe and the open of the document.
extractTextFromPdf ==
    /\ pc = "extractTextFromPdf"
    /\ trace' = trace \o <<"api.PDFInfo", "fitz.NewFromMemory">>
    /\ LET probe == getPageCount(buffer)
           n == IF probe.err THEN 1 ELSE probe.n
       IN  IF ~buffer.pdf.opens
           THEN LET r == extractTextOnOpenError(n)
                IN  /\ text' = r.text
                    /\ numPages' = r.numPages
                    /\ info' = r.info
                    /\ IF r.err # "nil"
                       THEN Fail("ParseError")
                       ELSE pc' = "hasExtractableText" /\ UNCHANGED <<result, err>>
                    /\ UNCHANGED <<handles, pageNum, textBuilder>>
           ELSE /\ numPages' = n
                /\ handles' = handles + 1
                /\ pageNum' = 0
                /\ textBuilder' = << >>
                /\ pc' = "textLoop"
                /\ UNCHANGED <<text, info, result, err>>
    /\ UNCHANGED <<options, parseOptions>>
    /\ UNCHANGED configVars
    /\ UNCHANGED reused
    /\ UNCHANGED <<buffer, threshold, images, pendingErr, content, mode>>
    /\ UNCHANGED callVars

\* One turn of "for pageNum := 0; pageNum < numPages; pageNum++".
ExtractPageText ==
    /\ pc = "textLoop"
    /\ pageNum < numPages
    /\ trace' = Append(trace, "doc.Text")
    /\ LET r == DocText(buffer.pdf, pageNum)
       IN  textBuilder' = IF r.err THEN textBuilder ELSE textBuilder \o r.text \o <<"nl">>
    /\ pageNum' = pageNum + 1
    /\ UNCHANGED <<pc, options, parseOptions, result, err>>
    /\ UNCHANGED configVars
    /\ UNCHANGED reused
    /\ UNCHANGED <<buffer, threshold, numPages, text, images, pendingErr, handles, content,
                   mode, info>>
    /\ UNCHANGED callVars

\* The loop ends: return textBuilder.String(), and the deferred doc.Close().
ReturnText ==
    /\ pc = "textLoop"
    /\ pageNum >= numPages
    /\ text' = textBuilder
    /\ info' = EmptyInfo
    /\ handles' = Close(handles)
    /\ pc' = "hasExtractableText"
    /\ UNCHANGED <<options, parseOptions, result, err, trace>>
    /\ UNCHANGED configVars
    /\ UNCHANGED reused
    /\ UNCHANGED <<buffer, threshold, numPages, pageNum, textBuilder, images, pendingErr,
                   content, mode>>
    /\ UNCHANGED callVars

\* if hasExtractableText(text, threshold) { return text content }
SelectMode ==
    /\ pc = "hasExtractableText"
    /\ IF hasExtractableText(text, threshold)
       THEN /\ content' = [Type |-> "text", TextContent |-> text, ImageContent |-> << >>]
            /\ mode' = "text"
            /\ pc' = "parsed"
       ELSE /\ pc' = "convertPdfToImages"
            /\ mode' = "vision"
            /\ UNCHANGED content
    /\ UNCHANGED <<options, parseOptions, result, err, trace>>
    /\ UNCHANGED configVars
    /\ UNCHANGED reused
    /\ UNCHANGED <<buffer, threshold, numPages, pageNum, textBuilder, text, images,
                   pendingErr, handles, info>>
    /\ UNCHANGED callVars

\* convertPdfToImages: the open of the document and doc.NumPage().
convertPdfToImages ==
    /\ pc = "convertPdfToImages"
    /\ trace' = Append(trace, "fitz.NewFromMemory")
    /\ IF ~buffer.pdf.opens
       THEN /\ Fail("ImageConversionError")
            /\ UNCHANGED <<handles, numPages, pageNum, images, pendingErr>>
       ELSE /\ handles' = handles + 1
            /\ numPages' = Len(buffer.pdf.pages)
            /\ pageNum' = 0
            /\ images' = << >>
            /\ pendingErr' = IF Len(buffer.pdf.pages) = 0
                             THEN "PDF conversion produced no images" ELSE "nil"
            /\ pc' = IF Len(buffer.pdf.pages) = 0 THEN "closeDocument" ELSE "imageLoop"
            /\ UNCHANGED <<result, err>>
    /\ UNCHANGED <<options, parseOptions>>
    /\ UNCHANGED configVars
    /\ UNCHANGED reused
    /\ UNCHANGED <<buffer, threshold, textBuilder, text, content, mode, info>>
    /\ UNCHANGED callVars

\* One turn of the loop over the pages: doc.Image, png.Encode, base64.
ConvertPage ==
    /\ pc = "imageLoop"
    /\ pageNum < numPages
    /\ trace' = Append(trace, "doc.Image")
    /\ LET outcome == buffer.pdf.pages[pageNum + 1].image
       IN  IF outcome = "ok"
           THEN /\ images' = Append(images, [Page |-> pageNum + 1,
                                             Base64 |-> <<"png", pageNum + 1>>])
                /\ pageNum' = pageNum + 1
                /\ UNCHANGED <<pc, pendingErr>>
           ELSE /\ pendingErr' = IF outcome = "renderError"
                                 THEN "failed to render page" ELSE "failed to encode page"
                /\ pc' = "closeDocument"
                /\ UNCHANGED <<images, pageNum>>
    /\ UNCHANGED <<options, parseOptions, result, err>>
    /\ UNCHANGED configVars
    /\ UNCHANGED reused
    /\ UNCHANGED <<buffer, threshold, numPages, textBuilder, text, handles, content, mode, info>>
    /\ UNCHANGED callVars

ReturnImages ==
    /\ pc = "imageLoop"
    /\ pageNum >= numPages
    /\ pc' = "closeDocument"
    /\ UNCHANGED <<options, parseOptions, result, err, trace>>
    /\ UNCHANGED configVars
    /\ UNCHANGED reused
    /\ UNCHANGED parseVars
    /\ UNCHANGED callVars

\* The deferred doc.Close() of convertPdfToImages, then ParsePdfFromBuffer's return.
CloseDocument ==
    /\ pc = "closeDocument"
    /\ handles' = Close(handles)
    /\ IF ConversionFailed(pendingErr)
       THEN Fail("ImageConversionError") /\ UNCHANGED content
       ELSE /\ content' = [Type |-> "images", TextContent |-> << >>, ImageContent |-> images]
            /\ pc' = "parsed"
            /\ UNCHANGED <<result, err>>
    /\ UNCHANGED <<options, parseOptions, trace>>
    /\ UNCHANGED configVars
    /\ UNCHANGED reused
    /\ UNCHANGED <<buffer, threshold, numPages, pageNum, textBuilder, text, images,
                   pendingErr, mode, info>>
    /\ UNCHANGED callVars

\* if parsedPdf.Content.Type == "text" { return e.extractFromText(...) }
extractFromText ==
    /\ pc = "parsed"
    /\ content.Type = "text"
    /\ requestBody' = TextRequest(e, content.TextContent, options.Schema, options)
    /\ pc' = "callOpenAI"
    /\ UNCHANGED <<options, parseOptions, result, err, trace, response>>
    /\ UNCHANGED configVars
    /\ UNCHANGED reused
    /\ UNCHANGED parseVars

\* A mutation of VisionDisabled: the flag is not looked at.
VisionNeverDisabled(ex) == FALSE

\* if !e.config.VisionEnabled
VisionDisabled(ex) == ~ex.config.VisionEnabled

extractFromImages ==
    /\ pc = "parsed"
    /\ content.Type # "text"
    /\ IF VisionDisabled(e)
       THEN Fail("VisionDisabled") /\ UNCHANGED requestBody
       ELSE /\ requestBody' = VisionRequest(e, content.ImageContent, options.Schema, options)
            /\ pc' = "callOpenAI"
            /\ UNCHANGED <<result, err>>
    /\ UNCHANGED <<options, parseOptions, trace, response>>
    /\ UNCHANGED configVars
    /\ UNCHANGED reused
    /\ UNCHANGED parseVars

\* A mutation of AfterAnswer: a request the transport failed is sent again.
AfterAnswerRetry(ret) == IF ret.err.kind = "TransportError" THEN "callOpenAI" ELSE "return"

\* Where the call is once callOpenAI has its outcome: every branch returns.
AfterAnswer(ret) == "return"

\* callOpenAI: the request is created, sent once, and the answer decides the outcome.
callOpenAI(answers) ==
    /\ pc = "callOpenAI"
    /\ IF NewRequestFails(RequestURL(e))
       THEN /\ Fail("RequestError")
            /\ UNCHANGED <<trace, response>>
       ELSE /\ trace' = Append(trace, "client.Do")
            /\ \E resp \in answers :
                  LET ret == callOpenAIReturn(resp)
                  IN  /\ response' = resp
                      /\ pc' = AfterAnswer(ret)
                      /\ result' = ret.result
                      /\ err' = ret.err
    /\ UNCHANGED <<options, parseOptions, requestBody>>
    /\ UNCHANGED configVars
    /\ UNCHANGED reused
    /\ UNCHANGED parseVars

\* The steps of a call after its start.
Steps ==
    \/ ValidateInputs
    \/ ValidateSchemaStep
    \/ ParsePdfFromPath
    \/ ParsePdfFromCallerBuffer
    \/ ParsePdfFromBuffer
    \/ extractTextFromPdf
    \/ ExtractPageText
    \/ ReturnText
    \/ SelectMode
    \/ convertPdfToImages
    \/ ConvertPage
    \/ ReturnImages
    \/ CloseDocument
    \/ extractFromText
    \/ extractFromImages
    \/ Returned

(***************************************************************************)
(* Spec: the whole pipeline over a small set of configurations, requests,  *)
(* documents and answers.                                                  *)
(***************************************************************************)
SpecLiterals ==
    Literals({"", "sk"}, {""}, {""}, {""}, {"unset", "true", "false"}, {0, 3},
             {"", "You are an expert document analyzer."})
    \cup {[NoLiteral EXCEPT !.OpenAIAPIKey = "sk", !.BaseURL = MalformedBaseURL,
                            !.VisionEnabled = "true", !.TextThreshold = 3]}

SpecOptions ==
    ExtractionOptions(Paths, Buffers(Documents(PageKinds, MaxPages)), Schemas,
                      {Unset, Value(1)}, {Unset, Value(64)})

SpecAnswers ==
    { DoError,
      ReadError(200),
      Answer(500, Garbage),
      Answer(200, Body(<< >>, Value(42), ModelName("m1"))),
      Answer(200, Body(<< "{\"a\":1}" >>, Value(42), ModelName("m1"))),
      Answer(200, Body(<< "not json" >>, Value(42), ModelName("m1"))) }

Next ==
    \/ Construct(SpecLiterals)
    \/ Extract(SpecOptions)
    \/ Steps
    \/ callOpenAI(SpecAnswers)

Spec == Init /\ [][Next]_vars

(***************************************************************************)
(* SpecSelect: the pipeline over one-page documents of every text of at    *)
(* most MaxTextLen runes and every TextThreshold from -1 to MaxThreshold.  *)
(***************************************************************************)
SelectTexts == SeqsUpTo(Letters \cup {"sp"}, MaxTextLen)

SelectDocuments ==
    {[probeOk |-> TRUE, opens |-> TRUE, pages |-> << Page(TRUE, t, "ok") >>] : t \in SelectTexts}
    \cup {[probeOk |-> TRUE, opens |-> TRUE, pages |-> << Page(FALSE, << >>, "ok") >>]}

SelectLiterals ==
    Literals({"sk"}, {""}, {""}, {""}, {"true", "false"}, (-1)..MaxThreshold, {""})

SelectOptions ==
    ExtractionOptions({"", "a.pdf"}, Buffers(SelectDocuments), {NilSchema, GoodSchema},
                      {Unset}, {Unset})

NextSelect ==
    \/ Construct(SelectLiterals)
    \/ Extract(SelectOptions)
    \/ Steps
    \/ callOpenAI(SpecAnswers)

SpecSelect == Init /\ [][NextSelect]_vars

(***************************************************************************)
(* SpecClient: the pipeline over a few documents and every answer of the   *)
(* endpoint: each status, and each body of at most MaxChoices choices.     *)
(***************************************************************************)
Contents ==
    { "", "{\"a\":1}", " { \"a\" : 1 }\n", "{}", "null", "[1]", "\"s\"", "7", "true",
      "not json", "{\"a\":1", "{\"a\":1} trailing" }

Statuses == {200, 201, 204, 404, 500}

ClientBodies ==
    {Garbage} \cup
    {Body(c, u, m) : c \in SeqsUpTo(Contents, MaxChoices),
                     u \in {Unset, Value(42)}, m \in {NoModelName, ModelName("m1")}}

ClientAnswers ==
    {DoError} \cup {ReadError(st) : st \in Statuses}
              \cup {Answer(st, b) : st \in Statuses, b \in ClientBodies}

ClientLiterals == Literals({"sk"}, {""}, {""}, {""}, {"true"}, {3}, {""})

ClientOptions ==
    ExtractionOptions({"", "a.pdf"}, Buffers(Documents({TextPage, ScannedPage}, 1)),
                      {GoodSchema}, {Unset}, {Unset})

NextClient ==
    \/ Construct(ClientLiterals)
    \/ Extract(ClientOptions)
    \/ Steps
    \/ callOpenAI(ClientAnswers)

SpecClient == Init /\ [][NextClient]_vars

(***************************************************************************)
(* SpecConfig: the pipeline over every configuration literal that sets or  *)
(* leaves out the key, the endpoint, each of the three models, the         *)
(* threshold and the system prompt, on the documents of SpecClient.        *)
(***************************************************************************)
ConfigLiterals ==
    [OpenAIAPIKey : {"", "sk"}, BaseURL : {"", "http://localhost:8080/v1"},
     Model : {"", "gpt-4o"}, TextModel : {"", "text-m"}, VisionModel : {"", "vision-m"},
     VisionEnabled : {"true"}, TextThreshold : {-1, 0, 3},
     SystemPrompt : {"", "You are an expert document analyzer."}]

NextConfig ==
    \/ Construct(ConfigLiterals)
    \/ Extract(ClientOptions)
    \/ Steps
    \/ callOpenAI(SpecAnswers)

SpecConfig == Init /\ [][NextConfig]_vars

(***************************************************************************)
(* SpecSignature: the pipeline over every buffer of at most MaxBytes bytes *)
(* drawn from the bytes of the signature, each with every way the          *)
(* libraries may take it: not a document, a document of text, a scan.      *)
(***************************************************************************)
SignatureBytes == SeqsUpTo(Range(PdfMagic), MaxBytes)

ScannedDocument == [probeOk |-> TRUE, opens |-> TRUE, pages |-> << ScannedPage >>]

SignatureBuffers ==
    {NilBuffer} \cup
    {[isNil |-> FALSE, bytes |-> b, pdf |-> d] :
        b \in SignatureBytes, d \in {NoPdf, FileDocument, ScannedDocument}}

SignatureOptions ==
    ExtractionOptions({"", "a.pdf"}, SignatureBuffers, {GoodSchema}, {Unset}, {Unset})

NextSignature ==
    \/ Construct(ClientLiterals)
    \/ Extract(SignatureOptions)
    \/ Steps
    \/ callOpenAI(SpecAnswers)

SpecSignature == Init /\ [][NextSignature]_vars

(***************************************************************************)
(* The claims.                                                             *)
(***************************************************************************)
\* The call has returned.
Done == pc = "return"

\* The request went to the endpoint.
Sent == "client.Do" \in Range(trace)

\* The number of characters (runes) of a text.
RuneCount(s) == Len(s)

HasSystemMessage(req) == \E i \in DOMAIN req.messages : req.messages[i].role = "system"

\* C1: the threshold check chooses text mode exactly when the number of
\* characters of the trimmed text is at least the threshold.
C1_ModeByCharacterCount ==
    mode # "" => ((mode = "text") <=> (RuneCount(TrimSpace(text)) >= threshold))

\* C2 as stated: with the vision flag false, a call whose mode is vision
\* ends with VisionDisabled, and no request is built or sent.
C2_VisionDisabledAlways ==
    (Done /\ mode = "vision" /\ ~e.config.VisionEnabled)
        => /\ err.kind = "VisionDisabled"
           /\ ~Sent
           /\ requestBody = NilRequest

\* C2 amended: with the vision flag false and the mode vision, no request is
\* ever built or sent, and the call ends without a result: with
\* VisionDisabled when the conversion to images succeeded, with the image
\* conversion error when it failed.
C2_VisionDisabledAfterConversion ==
    (mode = "vision" /\ ~e.config.VisionEnabled)
        => /\ ~Sent
           /\ pc # "callOpenAI"
           /\ requestBody = NilRequest
           /\ Done => /\ result.isNil
                      /\ err.kind = IF content.Type = "images"
                                    THEN "VisionDisabled" ELSE "ImageConversionError"

C2_Witness ==
    /\ Done
    /\ mode = "vision"
    /\ ~e.config.VisionEnabled
    /\ Len(content.ImageContent) > 0
    /\ err.kind = "VisionDisabled"

\* C3: an extractor built from a configuration that does not set
\* VisionEnabled has vision enabled, and its call on a document without
\* enough text sends a vision request and does not fail with VisionDisabled.
C3_VisionEnabledByDefault ==
    (Done /\ literal.VisionEnabled = "unset" /\ content.Type = "images")
        => /\ e.config.VisionEnabled = defaultVisionEnabled
           /\ err.kind # "VisionDisabled"
           /\ Sent

\* The source of the bytes has been chosen: the call is past "parse".
SourceChosen ==
    \/ pc \in {"ParsePdfFromBuffer", "extractTextFromPdf", "textLoop", "hasExtractableText",
               "convertPdfToImages", "imageLoop", "closeDocument", "parsed", "callOpenAI"}
    \/ Done /\ err.kind \notin {"MissingSource", "InvalidSchema"}

C5_EmptySystemPromptSuppresses ==
    requestBody # NilRequest
        => (HasSystemMessage(requestBody) <=> literal.SystemPrompt # "")

\* C6: a call with neither path nor buffer ends at once with MissingSource:
\* whatever the schema, nothing is validated, read, parsed or sent.
C6_MissingSourceNoIO ==
    (pc \notin {"new", "idle", "Extract"} /\ options.PDFPath = "" /\ options.PDFBuffer.isNil)
        => /\ Done
           /\ err = Error("MissingSource")
           /\ result.isNil
           /\ trace = << >>
           /\ buffer = NilBuffer
           /\ handles = 0
           /\ requestBody = NilRequest

C6_Witness ==
    /\ Done
    /\ options.PDFPath = ""
    /\ options.PDFBuffer.isNil
    /\ options.Schema = NilSchema
    /\ err.kind = "MissingSource"

\* C7: an answer whose status is not 2xx ends the call with RemoteError
\* carrying that status and the body as read, and without a result.
C7_NonSuccessIsRemoteError ==
    (Done /\ response.transport = "ok" /\ response.status \notin 200..299)
        => /\ err = [kind |-> "RemoteError", status |-> response.status, body |-> response.body]
           /\ result.isNil

C7_Witness ==
    /\ Done
    /\ response.transport = "ok"
    /\ response.status = 404
    /\ response.body.json
    /\ Len(response.body.choices) > 0
    /\ response.body.choices[1] = "{\"a\":1}"
    /\ err.kind = "RemoteError"

\* The body has no completion: no choice, or a first choice of empty content.
EmptyAnswer ==
    /\ response.transport = "ok"
    /\ response.body.json
    /\ (Len(response.body.choices) = 0 \/ response.body.choices[1] = "")

\* C8 as stated: an answer of any 2xx status without a completion ends the
\* call with EmptyCompletion.
C8_EmptyCompletionOnSuccessStatus ==
    (Done /\ EmptyAnswer /\ response.status \in 200..299)
        => (err.kind = "EmptyCompletion" /\ result.isNil)

\* C8 amended: an answer of status 200 without a completion ends the call
\* with EmptyCompletion and without a result.
C8_EmptyCompletionOnStatusOK ==
    (Done /\ EmptyAnswer /\ response.status = 200)
        => (err.kind = "EmptyCompletion" /\ result.isNil)

C8_Witness ==
    /\ Done
    /\ EmptyAnswer
    /\ response.status = 200
    /\ Len(response.body.choices) = MaxChoices
    /\ response.body.choices[1] = ""
    /\ err.kind = "EmptyCompletion"

\* The call came to the parse of the content of the first choice.
ContentReached ==
    /\ response.transport = "ok"
    /\ response.status = 200
    /\ response.body.json
    /\ Len(response.body.choices) > 0
    /\ response.body.choices[1] # ""

\* C9: a content that is not JSON ends the call with MalformedCompletion,
\* and the Data of a result is the value of the whole content.
C9_MalformedCompletion ==
    /\ (Done /\ ContentReached /\ ~JsonText(response.body.choices[1]).valid)
          => (err.kind = "MalformedCompletion" /\ result.isNil)
    /\ (Done /\ ~result.isNil)
          => /\ ContentReached
             /\ JsonText(response.body.choices[1]).valid
             /\ result.Data = JsonText(response.body.choices[1]).value

C9_Witness ==
    /\ Done
    /\ ContentReached
    /\ response.body.choices[1] = "{\"a\":1} trailing"
    /\ err.kind = "MalformedCompletion"

\* C10: a successful call returns the parsed content, the reported total
\* tokens and the reported model, 0 and "" standing for what the body omits;
\* an omitted usage or model does not make the call fail.
C10_SuccessfulResult ==
    /\ (Done /\ err = NoErr)
          => /\ ~result.isNil
             /\ result.Data = JsonText(response.body.choices[1]).value
             /\ result.TokensUsed =
                    IF response.body.usage.set THEN response.body.usage.v ELSE 0
             /\ result.Model = IF response.body.model.set THEN response.body.model.v ELSE ""
    /\ (Done /\ ContentReached /\ JsonText(response.body.choices[1]).kind = "object")
          => err = NoErr

C10_Witness ==
    /\ Done
    /\ err = NoErr
    /\ ~response.body.usage.set
    /\ ~response.body.model.set
    /\ result.Data = "map[a:1]"
    /\ result.TokensUsed = 0
    /\ result.Model = ""

\* The model a configuration literal asks for by default.
ConfiguredDefaultModel(lit) == IF lit.Model # "" THEN lit.Model ELSE "gpt-4o-mini"

\* C11: for every extractor New returns, the text model is TextModel if set,
\* else the default model; the vision model is VisionModel if set, else the
\* default model; the default model is Model if set, else "gpt-4o-mini".
\* A request of text mode carries the text model, one of vision mode the
\* vision model.
C11_ModelResolution ==
    (pc # "new")
        => /\ newErr = "nil"
           /\ GetModel(e) = ConfiguredDefaultModel(literal)
           /\ GetTextModel(e) = IF literal.TextModel # "" THEN literal.TextModel
                                ELSE ConfiguredDefaultModel(literal)
           /\ GetVisionModel(e) = IF literal.VisionModel # "" THEN literal.VisionModel
                                  ELSE ConfiguredDefaultModel(literal)
           /\ (literal.TextModel = "" /\ literal.VisionModel = "" /\ literal.Model # "")
                 => (GetTextModel(e) = literal.Model /\ GetVisionModel(e) = literal.Model)
           /\ (requestBody # NilRequest)
                 => requestBody.model = IF mode = "text" THEN GetTextModel(e)
                                        ELSE GetVisionModel(e)

C11_Witness ==
    /\ Sent
    /\ mode = "vision"
    /\ literal.Model = "gpt-4o"
    /\ literal.TextModel = "text-m"
    /\ literal.VisionModel = ""
    /\ GetTextModel(e) = "text-m"
    /\ requestBody.model = "gpt-4o"

\* C14: New fails, and returns no extractor, exactly when the API key is
\* empty; every extractor it returns has a non-empty default, text and vision
\* model, base URL and system prompt and a non-zero text threshold, and every
\* request carries a non-empty model and goes to a non-empty base URL.
C14_DefaultsApplied ==
    /\ (literal # NoLiteral \/ newErr # "nil")
          => /\ (newErr # "nil") <=> (literal.OpenAIAPIKey = "")
             /\ (newErr # "nil") <=> (e = NilExtractor)
             /\ (newErr # "nil") => pc = "new"
    /\ (pc # "new")
          => /\ GetModel(e) # ""
             /\ GetTextModel(e) # ""
             /\ GetVisionModel(e) # ""
             /\ e.baseURL # ""
             /\ e.systemPrompt # ""
             /\ e.config.TextThreshold # 0
             /\ e.apiKey = literal.OpenAIAPIKey
    /\ (requestBody # NilRequest)
          => (requestBody.model # "" /\ RequestURL(e)[1] # "")

C14_Witness ==
    /\ Sent
    /\ literal.Model = ""
    /\ literal.BaseURL = ""
    /\ literal.TextThreshold = 0
    /\ literal.SystemPrompt = ""
    /\ requestBody.model = defaultModel
    /\ RequestURL(e) = <<defaultBaseURL, "/chat/completions">>
    /\ e.config.TextThreshold = defaultTextThreshold

\* The bytes start with the four bytes "%PDF".
StartsWithSignature(bytes) ==
    /\ Len(bytes) >= 4
    /\ bytes[1] = "%" /\ bytes[2] = "P" /\ bytes[3] = "D" /\ bytes[4] = "F"

\* C12: ValidatePdf is true of a buffer exactly when it has at least 4 bytes
\* and starts with "%PDF"; on any other buffer, a nil or empty one included,
\* it is false and ParsePdfFromBuffer returns InvalidPdf before the page
\* count is probed, the document opened, a page read or rendered.
C12_SignatureGate ==
    /\ ~ValidatePdf(BytesInput(NilBuffer))
    /\ ~ValidatePdf(BytesInput(EmptyBuffer))
    /\ ("parser.ParsePdfFromBuffer" \in Range(trace))
          => /\ ValidatePdf(BytesInput(buffer)) <=> StartsWithSignature(buffer.bytes)
             /\ ~StartsWithSignature(buffer.bytes)
                   => /\ Done
                      /\ err = Error("InvalidPdf")
                      /\ result.isNil
                      /\ Range(trace) \cap {"api.PDFInfo", "fitz.NewFromMemory", "doc.Text",
                                            "doc.Image", "client.Do"} = {}
                      /\ handles = 0
                      /\ mode = ""
                      /\ content = NoContent
             /\ (StartsWithSignature(buffer.bytes) /\ Done) => err.kind # "InvalidPdf"

C12_Witness ==
    /\ Done
    /\ Len(buffer.bytes) = 3
    /\ buffer.bytes = <<"%", "P", "D">>
    /\ buffer.pdf = FileDocument
    /\ err.kind = "InvalidPdf"

\* The schema is nil, an empty mapping, or one the loader rejects.
BadSchema(schema) == schema.isNil \/ schema.keys = {} \/ ~schema.loads

\* C13 as stated: a call whose schema ValidateSchema fails on ends with
\* InvalidSchema.
C13_InvalidSchemaAlways ==
    (Done /\ ValidateSchema(options.Schema) # "nil") => err.kind = "InvalidSchema"

\* C13 amended: ValidateSchema fails on nil and on the empty mapping and
\* succeeds on every non-empty mapping the loader accepts; a call that gives
\* a source and a schema ValidateSchema fails on ends with InvalidSchema,
\* nothing read, parsed or sent; a call that gives no source ends with
\* MissingSource whatever its schema.
C13_InvalidSchemaWhenSourceGiven ==
    /\ ValidateSchema(NilSchema) # "nil"
    /\ ValidateSchema(EmptySchema) # "nil"
    /\ (pc \notin {"new", "idle"})
          => ((ValidateSchema(options.Schema) # "nil") <=> BadSchema(options.Schema))
    /\ (Done /\ BadSchema(options.Schema))
          => IF options.PDFPath = "" /\ options.PDFBuffer.isNil
             THEN err = Error("MissingSource")
             ELSE /\ err = Error("InvalidSchema")
                  /\ result.isNil
                  /\ trace = <<"schema.ValidateSchema">>
                  /\ buffer = NilBuffer
                  /\ handles = 0
                  /\ requestBody = NilRequest
    /\ (Done /\ err.kind = "InvalidSchema") => BadSchema(options.Schema)

C13_Witness ==
    /\ Done
    /\ options.Schema = EmptySchema
    /\ options.PDFPath = "a.pdf"
    /\ ~options.PDFBuffer.isNil
    /\ err.kind = "InvalidSchema"

\* The HTTP requests the call has issued.
Requests == Cardinality({i \in DOMAIN trace : trace[i] = "client.Do"})

\* C15: a call issues at most one request: exactly one once validation,
\* parsing and the building of the request succeeded, none otherwise; after
\* a transport failure, an error status, an empty or a malformed completion
\* it has returned and no second request is issued.
C15_SingleAttempt ==
    /\ Requests <= 1
    /\ (pc # "return") => Requests = 0
    /\ Done
          => /\ (Requests = 1)
                   <=> (requestBody # NilRequest /\ ~NewRequestFails(RequestURL(e)))
             /\ (Requests = 0)
                   <=> err.kind \in {"MissingSource", "InvalidSchema", "IOError",
                                     "InvalidPdf", "ImageConversionError",
                                     "VisionDisabled", "RequestError"}
             /\ (Requests = 1) => response # NoResponse

C15_Witness ==
    /\ Done
    /\ err.kind = "TransportError"
    /\ response = DoError
    /\ Requests = 1

\* C16: a call ends either with a result and no error, or with an error and
\* no result; until it ends it has neither.
C16_NoPartialResult ==
    /\ Done
          => /\ result.isNil <=> (err # NoErr)
             /\ (err # NoErr) => result = NilResult
    /\ (pc # "return") => (result = NilResult /\ err = NoErr)

C16_Witness ==
    /\ Done
    /\ err.kind = "MalformedCompletion"
    /\ response.body.usage = Value(42)
    /\ result = NilResult

\* The stage of the pipeline the i-th outside call of the trace belongs to:
\* 1 Validate, 2 Load bytes, 3 Parse, 5 Materialize content, 7 Send.  The
\* document is opened twice: for its text right after the page-count probe,
\* and for its images.
StageOfCall(i) ==
    CASE trace[i] = "schema.ValidateSchema" -> 1
      [] trace[i] \in {"parser.ParsePdfFromPath", "os.ReadFile"} -> 2
      [] trace[i] \in {"parser.ParsePdfFromBuffer", "api.PDFInfo", "doc.Text"} -> 3
      [] trace[i] = "fitz.NewFromMemory" ->
            IF i > 1 /\ trace[i - 1] = "api.PDFInfo" THEN 3 ELSE 5
      [] trace[i] = "doc.Image" -> 5
      [] trace[i] = "client.Do" -> 7
      [] OTHER -> 0

Calls(name) == Cardinality({i \in DOMAIN trace : trace[i] = name})

LastCall == IF trace = << >> THEN "" ELSE trace[Len(trace)]

\* C17: the stages of a call run in the order Validate, Load bytes, Parse,
\* Select mode, Materialize content, Build, Send, each at most once and
\* none after a later one; the images are made only after the verdict
\* "vision"; a stage that fails ends the call, so nothing is read after an
\* invalid schema and nothing is built or sent after a failed parse or
\* conversion.
C17_LinearPipeline ==
    /\ \A i, j \in DOMAIN trace : i < j => StageOfCall(i) <= StageOfCall(j)
    /\ \A i \in DOMAIN trace : StageOfCall(i) > 0
    /\ \A name \in {"schema.ValidateSchema", "parser.ParsePdfFromPath", "os.ReadFile",
                     "parser.ParsePdfFromBuffer", "api.PDFInfo", "client.Do"} :
          Calls(name) <= 1
    /\ Calls("fitz.NewFromMemory") <= 2
    /\ Calls("doc.Text") <= MaxPages
    /\ Calls("doc.Image") <= MaxPages
    /\ (trace # << >>) => trace[1] = "schema.ValidateSchema"
    /\ (mode # "") => Calls("api.PDFInfo") = 1
    /\ (\E i \in DOMAIN trace : StageOfCall(i) = 5) => mode = "vision"
    /\ (mode = "text") => content.Type = "text"
    /\ (requestBody # NilRequest)
          => /\ mode # ""
             /\ content.Type = IF mode = "text" THEN "text" ELSE "images"
             /\ pendingErr = "nil"
    /\ Sent => requestBody # NilRequest
    /\ (pendingErr # "nil") => (requestBody = NilRequest /\ ~Sent)
    /\ (Done /\ err.kind = "MissingSource") => trace = << >>
    /\ (Done /\ err.kind = "InvalidSchema") => trace = <<"schema.ValidateSchema">>
    /\ (Done /\ err.kind = "IOError")
          => (LastCall = "os.ReadFile" /\ Calls("parser.ParsePdfFromBuffer") = 0)
    /\ (Done /\ err.kind = "InvalidPdf")
          => (LastCall = "parser.ParsePdfFromBuffer" /\ mode = "")
    /\ (Done /\ err.kind \in {"MissingSource", "InvalidSchema", "IOError", "InvalidPdf",
                               "ImageConversionError", "VisionDisabled"})
          => (requestBody = NilRequest /\ ~Sent)
    /\ (Done /\ err.kind \in {"MissingSource", "InvalidSchema", "IOError", "InvalidPdf"})
          => (mode = "" /\ content = NoContent)

C17_Witness ==
    /\ Done
    /\ err = NoErr
    /\ trace = <<"schema.ValidateSchema", "parser.ParsePdfFromPath", "os.ReadFile",
                 "parser.ParsePdfFromBuffer", "api.PDFInfo", "fitz.NewFromMemory",
                 "doc.Text", "fitz.NewFromMemory", "doc.Image", "client.Do">>

\* C18: at most one document is open at any moment of a call, and none once
\* the text extraction, the image conversion, ParsePdfFromBuffer or Extract
\* has returned, whichever way it ended.
C18_HandlesReleased ==
    /\ handles \in {0, 1}
    /\ (handles = 1) <=> (pc \in {"textLoop", "imageLoop", "closeDocument"})

C18_Witness ==
    /\ Done
    /\ err.kind = "ImageConversionError"
    /\ pendingErr = "failed to encode page"
    /\ Len(images) = 1
    /\ handles = 0

\* The texts of the pages whose text can be extracted, in page order, each
\* followed by a newline.
RECURSIVE PagesText(_)
PagesText(pages) ==
    IF pages = << >> THEN << >>
    ELSE (IF Head(pages).textOk THEN Head(pages).text \o <<"nl">> ELSE << >>)
         \o PagesText(Tail(pages))

\* C19: the text extracted from a document that opens is the text of every
\* page whose extraction succeeds, in page order, a newline between them
\* (and after the last, or not), whether or not the page count was probed.
C19_TextOfEveryPage ==
    (mode # "" /\ buffer.pdf.opens)
        => \/ text = PagesText(buffer.pdf.pages)
           \/ text \o <<"nl">> = PagesText(buffer.pdf.pages)

\* The page count extractTextFromPdf reports: the probed one, 1 when the
\* probe fails or finds no page.
BestEffortPageCount(pdf) ==
    IF pdf.probeOk /\ Len(pdf.pages) > 0 THEN Len(pdf.pages) ELSE 1

\* C20: when the document does not open for text extraction, the step
\* returns no error, an empty text, empty metadata and the best-effort page
\* count; the threshold check then decides for vision; and no call ever
\* ends with the "failed to parse PDF" error of the text extraction.
C20_OpenFailureIsNotAnError ==
    /\ err.kind # "ParseError"
    /\ (Calls("api.PDFInfo") = 1 /\ ~buffer.pdf.opens)
          => /\ text = << >>
             /\ info = EmptyInfo
             /\ numPages = BestEffortPageCount(buffer.pdf)
             /\ handles = 0
             /\ IF pc = "hasExtractableText" THEN mode = "" ELSE mode = "vision"
             /\ content = NoContent

C20_Witness ==
    /\ pc = "convertPdfToImages"
    /\ ~buffer.pdf.opens
    /\ ~buffer.pdf.probeOk
    /\ Len(buffer.pdf.pages) = MaxPages
    /\ mode = "vision"
    /\ numPages = 1
    /\ info = EmptyInfo

\* The extractor New makes of the literal, and the document a request names.
ResolvedExtractor(lit) == New(ExtractorConfig(lit)).e

SourceDocument(o) == IF o.PDFPath # "" THEN ReadFile(o.PDFPath).data.pdf ELSE o.PDFBuffer.pdf

\* The text of the pages the text extraction asks for.
ExtractedText(pdf) ==
    LET n == BestEffortPageCount(pdf)
    IN  PagesText(SubSeq(pdf.pages, 1, IF n < Len(pdf.pages) THEN n ELSE Len(pdf.pages)))

\* The request a call builds, from the literal and the options alone.
ExpectedRequest(lit, o) ==
    LET ex == ResolvedExtractor(lit)
        pdf == SourceDocument(o)
        userContent ==
            IF mode = "text"
            THEN [instruction |-> "Extract the following information from this text:",
                  text |-> ExtractedText(pdf)]
            ELSE << [type |-> "text",
                     url |-> <<"Extract the following structured information from these document pages:">>] >>
                 \o [i \in 1..Len(pdf.pages) |->
                        [type |-> "image_url", url |-> <<"data:image/png;base64,", <<"png", i>> >>]]
    IN  [model    |-> IF mode = "text" THEN ex.textModel ELSE ex.visionModel,
         messages |-> << [role |-> "system", content |-> ex.systemPrompt],
                         [role |-> "user", content |-> userContent] >>,
         response_format |->
             [type |-> "json_schema",
              json_schema |-> [name |-> "extracted_data", strict |-> TRUE, schema |-> o.Schema]],
         sampling |-> [temperature |-> IF o.Temperature.set THEN o.Temperature.v ELSE 0,
                       max_tokens |-> o.MaxTokens]]

\* C21: through any sequence of calls the extractor stays what New made of
\* the configuration; between two calls nothing of the earlier call is
\* left; and the request of a call is determined by its options, the
\* document they name and the resolved configuration.
C21_ConfigurationImmutable ==
    /\ (pc # "new") => e = ResolvedExtractor(literal)
    /\ (pc = "idle")
          => /\ content = NoContent
             /\ text = << >>
             /\ images = << >>
             /\ mode = ""
             /\ requestBody = NilRequest
             /\ response = NoResponse
             /\ result = NilResult
             /\ err = NoErr
    /\ (requestBody # NilRequest) => requestBody = ExpectedRequest(literal, options)

C21_Witness ==
    /\ reused
    /\ Sent
    /\ mode = "text"
    /\ literal.TextModel = "text-m"
    /\ literal.Model = "gpt-4o"
    /\ requestBody.model = "text-m"
    /\ GetModel(e) = "gpt-4o"

\* C22: only status 200 is accepted: an answer of any other status, 201 and
\* 204 included, ends the call with RemoteError carrying the status and the
\* body, whether or not the body parses; the status is looked at after the
\* body is read (a failed read is reported as such, whatever the status)
\* and before the body is parsed.
C22_OnlyStatusOK ==
    /\ (Done /\ response.transport = "ok" /\ response.status # 200)
          => /\ err = [kind |-> "RemoteError", status |-> response.status,
                       body |-> response.body]
             /\ result.isNil
    /\ (Done /\ response.transport = "readError") => err = Error("ReadError")
    /\ (Done /\ response.transport = "ok" /\ response.status = 200)
          => /\ err.kind # "RemoteError"
             /\ (~response.body.json) => err = Error("ParseResponseError")
    /\ (Done /\ err.kind = "RemoteError")
          => (response.transport = "ok" /\ response.status # 200)

C22_Witness ==
    /\ Done
    /\ response.transport = "ok"
    /\ response.status = 204
    /\ response.body = Garbage
    /\ err.kind = "RemoteError"
    /\ err.status = 204

\* C24: a call succeeds only when the content of the first choice is a JSON
\* object or the JSON null: an array, a string, a number or a boolean ends
\* it with MalformedCompletion, and "null" gives a result whose Data is nil.
C24_ObjectOrNull ==
    /\ (Done /\ ContentReached)
          => LET j == JsonText(response.body.choices[1])
             IN  /\ (err = NoErr) <=> (j.valid /\ j.kind \in {"object", "null"})
                 /\ (j.valid /\ j.kind \in {"array", "string", "number", "bool"})
                       => (err = Error("MalformedCompletion") /\ result.isNil)
                 /\ (j.kind = "null")
                       => (err = NoErr /\ ~result.isNil /\ result.Data = "nil")
    /\ (Done /\ err = NoErr)
          => /\ ContentReached
             /\ JsonText(response.body.choices[1]).kind \in {"object", "null"}

C24_Witness ==
    /\ Done
    /\ ContentReached
    /\ response.body.choices[1] = "null"
    /\ err = NoErr
    /\ ~result.isNil
    /\ result.Data = "nil"
    /\ result.TokensUsed = 42

\* C23: the threshold the mode is chosen by is always positive: New makes
\* 100 of a configured 0, and ParsePdfFromBuffer makes 100 of a negative
\* threshold and of nil options; so a text that is empty or all white space
\* never selects text mode, whatever the configuration.
C23_PositiveThreshold ==
    /\ EffectiveThreshold(NilParseOptions) = 100
    /\ (pc # "new")
          => /\ e.config.TextThreshold # 0
             /\ (literal.TextThreshold = 0) => e.config.TextThreshold = 100
    /\ (Calls("api.PDFInfo") = 1 \/ pc = "extractTextFromPdf")
          => /\ threshold > 0
             /\ threshold = IF literal.TextThreshold > 0 THEN literal.TextThreshold ELSE 100
    /\ (mode # "" /\ \A i \in DOMAIN text : text[i] \in {"sp", "nl"}) => mode = "vision"

C23_Witness ==
    /\ mode = "vision"
    /\ literal.TextThreshold = -1
    /\ parseOptions = ParseOptions(-1)
    /\ threshold = 100
    /\ text = <<"sp", "sp", "nl">>

=============================================================================
